---- MODULE Spec2Model ----
(***************************************************************************)
(* A model of react-fatless-form: the useForm state container, the         *)
(* handleSubmit submission pipeline, the FeedbackManager it reports to,    *)
(* and the DateInput and SelectBox components.                             *)
(***************************************************************************)
EXTENDS Integers, Sequences, FiniteSets, TLC

VARIABLES
    values,            \* state.values of useForm
    errors,            \* state.errors of useForm
    touched,           \* state.touched of useForm
    submissionStatus,  \* the second useState of useForm
    createdWith,       \* the initialValues argument of the first render
    renderValues,      \* state.values as seen by the closures of the last render
    renderInitial,     \* the initialValues argument of the last render
    lastCall,          \* the last validate or resetForm call of the application
    runs,              \* the handleSubmit invocations made so far
    feedbacks,         \* feedbackManager.feedbacks
    timers,            \* the setTimeout callbacks that have not fired yet
    now,               \* the reading of Date.now()
    impl,              \* which revision of handleSubmit the application imports
    listeners,         \* feedbackManager.listeners
    heard,             \* per listener: the calls it received and their argument
    history,           \* per feedback ever added: its removal and onClose calls
    picker,            \* a DateInput: its props and its state
    pickerLog,         \* what the DateInput last did: its event and onChange call
    select,            \* a SelectBox: its props and its state
    selectLog,         \* what the SelectBox last did: its event and onChange call
    layout             \* the window: where the two controls and their panels lie

vars == <<values, errors, touched, submissionStatus, createdWith, renderValues,
          renderInitial, lastCall, runs, feedbacks, timers, now, impl,
          listeners, heard, history, picker, pickerLog, select, selectLog, layout>>

formVars == <<values, errors, touched>>
renderVars == <<createdWith, renderValues, renderInitial, impl>>
audience == <<listeners, heard, history>>
widgets == <<picker, pickerLog, select, selectLog, layout>>

----------------------------------------------------------------------------
(* Bounds of the exploration *)

MaxRuns == 2
MaxClock == 1
MaxTimers == 2
MaxFeedbacks == 2
MaxCalls == 2
MaxAdded == 3
OptionCount == 5

----------------------------------------------------------------------------
(* JavaScript values *)

\* The absence of a property, or the value undefined.
NONE == "<undefined>"

\* A JavaScript value used in a condition: undefined and "" are falsy.
Truthy(s) == s # NONE /\ s # ""

\* a || b || c || d over the candidates in order.
RECURSIVE FirstTruthy(_)
FirstTruthy(cands) ==
    IF Len(cands) = 1 THEN Head(cands)
    ELSE IF Truthy(Head(cands)) THEN Head(cands)
    ELSE FirstTruthy(Tail(cands))

\* A field value: a scalar, or an array of strings.
Scalar(s) == [arr |-> FALSE, items |-> <<s>>]
Arr(q) == [arr |-> TRUE, items |-> q]

\* An object with no keys.
EmptyMap == [k \in {} |-> NONE]

\* { ...m, [k]: v }
Spread(m, k, v) == [x \in (DOMAIN m) \cup {k} |-> IF x = k THEN v ELSE m[x]]

\* Object.keys(m).length === 0
NoKeys(m) == DOMAIN m = {}

----------------------------------------------------------------------------
(* The inputs the environment chooses from *)

FieldNames == {"a", "b"}

\* The initialValues the form is created with, and what the owning component
\* may pass as initialValues when it renders again.
InitialValues == [f \in FieldNames |-> Scalar("")]

InitialChoices ==
    { InitialValues,
      [f \in FieldNames |-> IF f = "a" THEN Scalar("x") ELSE Scalar("")] }

ScalarInputs == {"", "x"}
ArrayInputs == { <<"x", "y">> }
ErrorInputs == {"E"}

\* A validation function, by what it computes from the values it is given:
\* "valid" accepts everything, "requiredA" reports field a when it is empty.
ValidateFns == {"valid", "requiredA"}

\* The path yup gives the error of element k of the array field f: f[k-1].
ElementPath(f, k) == f \o (CASE k = 1 -> "[0]" [] k = 2 -> "[1]")

\* validationError.inner of schema.validateSync(vals, { abortEarly: false })
\* for a schema whose field a is array().of(string().required()): one error
\* per empty element, at the element's path, or one at a when a is no array.
RECURSIVE YupInner(_, _)
YupInner(vals, k) ==
    IF ~vals["a"].arr
    THEN <<[path |-> "a", message |-> "Invalid"]>>
    ELSE IF k > Len(vals["a"].items) THEN <<>>
    ELSE (IF vals["a"].items[k] = ""
          THEN <<[path |-> ElementPath("a", k), message |-> "Required"]>>
          ELSE <<>>) \o YupInner(vals, k + 1)

\* inner.reduce((acc, err) => { if (err.path) acc[err.path] = err.message;
\* return acc }, {})
RECURSIVE YupReduce(_, _)
YupReduce(acc, inner) ==
    IF inner = <<>> THEN acc
    ELSE YupReduce(IF Truthy(Head(inner).path)
                   THEN Spread(acc, Head(inner).path, Head(inner).message)
                   ELSE acc,
                   Tail(inner))

\* The resolver yupResolver(schema) returns.
YupResolver(vals) == YupReduce(EmptyMap, YupInner(vals, 1))

\* "yupEach" is yupResolver for the schema above.
SchemaResolvers == {"yupEach"}

ApplyValidateFn(fn, vals) ==
    CASE fn = "valid" -> EmptyMap
      [] fn = "yupEach" -> YupResolver(vals)
      [] fn = "requiredA" ->
            [f \in {g \in DOMAIN vals \cap {"a"} : vals[g] = Scalar("")}
                |-> "Required"]

\* The listener functions the application may pass to subscribe.
ListenerPool == {"l1", "l2"}

----------------------------------------------------------------------------
(* useForm *)

\* useForm(initialValues): the two useState calls of the first render.
InitWith(revision) ==
    /\ impl = revision
    /\ createdWith = InitialValues
    /\ values = createdWith
    /\ errors = EmptyMap
    /\ touched = EmptyMap
    /\ submissionStatus = "idle"
    /\ renderValues = createdWith
    /\ renderInitial = createdWith
    /\ lastCall = [op |-> NONE, fn |-> NONE, returned |-> TRUE, flip |-> FALSE]
    /\ runs = <<>>
    /\ feedbacks = <<>>
    /\ timers = <<>>
    /\ now = 0
    /\ listeners = {}
    /\ heard = [l \in ListenerPool |->
                    [calls |-> 0, last |-> NONE, unsubscribed |-> FALSE]]
    /\ history = <<>>

\* The owning component renders again: useForm is called with an
\* initialValues argument, and the callbacks that depend on state.values or
\* initialValues are created anew.
Render(iv) ==
    /\ renderValues' = values
    /\ renderInitial' = iv
    /\ UNCHANGED <<values, errors, touched, submissionStatus, createdWith,
                   impl, lastCall, runs, feedbacks, timers, now, audience, widgets>>

\* A setter that spreads the state.values of its closure, not prev.values.
SetFieldValue_FromClosure(field, value) ==
    /\ values' = Spread(renderValues, field, value)
    /\ UNCHANGED <<errors, touched, submissionStatus, renderVars,
                   lastCall, runs, feedbacks, timers, now, audience, widgets>>

\* setState((prev) => ({ ...prev, values: { ...prev.values, [field]: value } }))
SetFieldValue(field, value) ==
    /\ values' = Spread(values, field, value)
    /\ UNCHANGED <<errors, touched, submissionStatus, renderVars,
                   lastCall, runs, feedbacks, timers, now, audience, widgets>>

SetFieldError(field, error) ==
    /\ errors' = Spread(errors, field, error)
    /\ UNCHANGED <<values, touched, submissionStatus, renderVars,
                   lastCall, runs, feedbacks, timers, now, audience, widgets>>

\* A setter that stores the value as it was given.
ToArray_Keep(value) == value

\* Array.isArray(value) ? value : [value]
ToArray(value) == IF value.arr THEN value ELSE Arr(value.items)

SetFieldArrayValue(field, value) ==
    /\ values' = Spread(values, field, ToArray(value))
    /\ UNCHANGED <<errors, touched, submissionStatus, renderVars,
                   lastCall, runs, feedbacks, timers, now, audience, widgets>>

SetFieldTouched(field, t) ==
    /\ touched' = Spread(touched, field, t)
    /\ UNCHANGED <<values, errors, submissionStatus, renderVars,
                   lastCall, runs, feedbacks, timers, now, audience, widgets>>

\* validate(validateFn): the errors validateFn computes from the state.values
\* of the closure replace state.errors; the return value is whether it has
\* no keys.
ValidateResult(fn) == ApplyValidateFn(fn, renderValues)

\* A validate that merges the new errors into the previous ones.
ValidateErrors_Merge(prev, result) ==
    [k \in (DOMAIN prev) \cup (DOMAIN result) |->
        IF k \in DOMAIN result THEN result[k] ELSE prev[k]]

\* setState((prev) => ({ ...prev, errors }))
ValidateErrors(prev, result) == result

\* A validate that reports success whatever the errors are.
ValidateReturn_AlwaysTrue(result) == TRUE

\* Object.keys(errors).length === 0
ValidateReturn(result) == NoKeys(result)

Validate(fn) ==
    LET result == ValidateResult(fn) IN
    /\ errors' = ValidateErrors(errors, result)
    /\ lastCall' = [op |-> "validate", fn |-> fn,
                    returned |-> ValidateReturn(result), flip |-> ~lastCall.flip]
    /\ UNCHANGED <<values, touched, submissionStatus, renderVars,
                   runs, feedbacks, timers, now, audience, widgets>>

\* The values resetForm restores: the initialValues of the render that
\* created the callback.
ResetTarget(closureInitial) == closureInitial

ResetForm ==
    /\ values' = ResetTarget(renderInitial)
    /\ errors' = EmptyMap
    /\ touched' = EmptyMap
    /\ lastCall' = [op |-> "resetForm", fn |-> NONE, returned |-> TRUE,
                    flip |-> ~lastCall.flip]
    /\ UNCHANGED <<submissionStatus, renderVars, runs, feedbacks, timers, now,
                   audience, widgets>>

ResetSubmissionStatus ==
    /\ submissionStatus' = "idle"
    /\ UNCHANGED <<formVars, renderVars, lastCall, runs, feedbacks,
                   timers, now, audience, widgets>>

----------------------------------------------------------------------------
(* FeedbackManager *)

\* The manager: its feedbacks, the timers it has set, its listeners and what
\* they have been called with.
Manager ==
    [feedbacks |-> feedbacks, timers |-> timers, listeners |-> listeners,
     heard |-> heard, history |-> history]

\* The feedbacks of the list are the entries of the history that have not
\* been removed, in the same order: the place in the list of entry i.
Position(h, i) == Cardinality({j \in 1..i : ~h[j].removed})

\* A notifyListeners that stops after the first listener of the set.
NotifyListeners_First(mgr) ==
    [mgr EXCEPT !.heard =
        [l \in DOMAIN @ |->
            IF mgr.listeners # {} /\ l = CHOOSE x \in mgr.listeners : TRUE
            THEN [@[l] EXCEPT !.calls = @ + 1, !.last = mgr.feedbacks]
            ELSE @[l]]]

\* this.listeners.forEach((listener) => listener(this.feedbacks))
NotifyListeners(mgr) ==
    [mgr EXCEPT !.heard =
        [l \in DOMAIN @ |->
            IF l \in mgr.listeners
            THEN [@[l] EXCEPT !.calls = @ + 1, !.last = mgr.feedbacks]
            ELSE @[l]]]

\* addFeedback(message, options): the feedback is appended with id Date.now(),
\* the listeners are notified and, when autoDismiss, a timer for
\* startFadeOut(id) is set.
AddFeedback(mgr, clock, message, variant, autoDismiss, onClose) ==
    LET feedback == [id |-> clock, message |-> message, variant |-> variant,
                     autoDismiss |-> autoDismiss, onClose |-> onClose,
                     isFadingOut |-> FALSE]
        notified == NotifyListeners(
                        [mgr EXCEPT
                            !.feedbacks = Append(@, feedback),
                            !.history = Append(@, [id |-> clock,
                                                   autoDismiss |-> autoDismiss,
                                                   onClose |-> onClose,
                                                   removed |-> FALSE,
                                                   wasFadingOut |-> FALSE,
                                                   closes |-> 0])])
    IN IF autoDismiss
       THEN [notified EXCEPT !.timers = Append(@, [id |-> clock, kind |-> "fade"])]
       ELSE notified

\* startFadeOut(id)
StartFadeOut(mgr, id) ==
    LET marked == [k \in DOMAIN mgr.feedbacks |->
                        IF mgr.feedbacks[k].id = id
                        THEN [mgr.feedbacks[k] EXCEPT !.isFadingOut = TRUE]
                        ELSE mgr.feedbacks[k]]
        notified == NotifyListeners([mgr EXCEPT !.feedbacks = marked])
    IN [notified EXCEPT !.timers = Append(@, [id |-> id, kind |-> "remove"])]

\* this.feedbacks.find((f) => f.id === id): the index of the first match, or 0
Find(fbs, id) ==
    IF \E k \in DOMAIN fbs : fbs[k].id = id
    THEN CHOOSE k \in DOMAIN fbs :
            /\ fbs[k].id = id
            /\ \A j \in DOMAIN fbs : fbs[j].id = id => k <= j
    ELSE 0

\* this.feedbacks.filter((f) => f.id !== id)
RECURSIVE Without(_, _)
Without(fbs, id) ==
    IF fbs = <<>> THEN <<>>
    ELSE IF Head(fbs).id = id THEN Without(Tail(fbs), id)
    ELSE <<Head(fbs)>> \o Without(Tail(fbs), id)

\* Whether removeFeedback(id) calls an onClose, which is resetSubmissionStatus
\* for every feedback that handleSubmit adds.
ClosesOnRemove(fbs, id) == Find(fbs, id) # 0 /\ fbs[Find(fbs, id)].onClose

\* What removeFeedback(id) does to each feedback: the one find returns has
\* its onClose called, and filter drops every feedback with the id.
Recorded(mgr, id) ==
    [i \in DOMAIN mgr.history |->
        LET h == mgr.history[i]
            k == Position(mgr.history, i)
        IN IF ~h.removed /\ h.id = id
           THEN [h EXCEPT
                    !.removed = TRUE,
                    !.wasFadingOut = mgr.feedbacks[k].isFadingOut,
                    !.closes = IF k = Find(mgr.feedbacks, id)
                                    /\ mgr.feedbacks[k].onClose
                               THEN @ + 1 ELSE @]
           ELSE h]

\* removeFeedback(id); what its onClose call does is in the action.
RemoveFeedback(mgr, id) ==
    NotifyListeners([mgr EXCEPT !.feedbacks = Without(@, id),
                                !.history = Recorded(mgr, id)])

RemoveAt(q, k) == SubSeq(q, 1, k - 1) \o SubSeq(q, k + 1, Len(q))

\* The manager's state after an operation.
Becomes(mgr) ==
    /\ feedbacks' = mgr.feedbacks
    /\ timers' = mgr.timers
    /\ listeners' = mgr.listeners
    /\ heard' = mgr.heard
    /\ history' = mgr.history

\* A pending setTimeout callback runs.
FireTimer(k) ==
    /\ k \in DOMAIN timers
    /\ LET t == timers[k]
           rest == [Manager EXCEPT !.timers = RemoveAt(timers, k)]
       IN IF t.kind = "fade"
          THEN /\ Becomes(StartFadeOut(rest, t.id))
               /\ UNCHANGED submissionStatus
          ELSE /\ submissionStatus' =
                     IF ClosesOnRemove(feedbacks, t.id) THEN "idle"
                     ELSE submissionStatus
               /\ Becomes(RemoveFeedback(rest, t.id))
    /\ UNCHANGED <<widgets, formVars, renderVars, lastCall, runs, now>>

\* The close button of FeedbackContainer: startFadeOut(feedback.id).
ClickClose(k) ==
    /\ k \in DOMAIN feedbacks
    /\ Len(timers) < MaxTimers
    /\ Becomes(StartFadeOut(Manager, feedbacks[k].id))
    /\ UNCHANGED <<widgets, formVars, submissionStatus, renderVars, lastCall,
                   runs, now>>

\* subscribe(listener), with a listener function that has not been
\* subscribed before: useFeedback creates a new one for each mount.
Subscribe(l) ==
    /\ l \notin listeners
    /\ ~heard[l].unsubscribed
    /\ listeners' = listeners \cup {l}
    /\ UNCHANGED <<widgets, formVars, submissionStatus, renderVars, lastCall, runs,
                   feedbacks, timers, now, heard, history>>

\* The function subscribe(l) returned is called.
Unsubscribe(l) ==
    /\ l \in listeners
    /\ listeners' = listeners \ {l}
    /\ heard' = [heard EXCEPT ![l].unsubscribed = TRUE]
    /\ UNCHANGED <<widgets, formVars, submissionStatus, renderVars, lastCall, runs,
                   feedbacks, timers, now, history>>

\* The application calls feedbackManager.addFeedback(message, { autoDismiss }).
CallAddFeedback(message, autoDismiss) ==
    /\ Len(feedbacks) < MaxFeedbacks
    /\ Len(timers) < MaxTimers
    /\ \A l \in ListenerPool : heard[l].calls < MaxCalls
    /\ Len(history) < MaxAdded
    /\ Becomes(AddFeedback(Manager, now, message, "info", autoDismiss, FALSE))
    /\ UNCHANGED <<widgets, formVars, submissionStatus, renderVars, lastCall, runs, now>>

\* Time passes: Date.now() reads a later millisecond.
Tick ==
    /\ now < MaxClock
    /\ now' = now + 1
    /\ UNCHANGED <<formVars, submissionStatus, renderVars, lastCall,
                   runs, feedbacks, timers, audience, widgets>>

----------------------------------------------------------------------------
(* handleSubmit *)

\* The feedbackConfig argument: absent, or an object with some of its keys.
NoConfig == [present |-> FALSE, showFeedback |-> NONE,
             successMessage |-> NONE, errorMessage |-> NONE]

Config(show, success, error) ==
    [present |-> TRUE, showFeedback |-> show,
     successMessage |-> success, errorMessage |-> error]

\* feedbackConfig && Object.keys(feedbackConfig).length === 0
IsEmptyConfig(cfg) ==
    /\ cfg.present
    /\ cfg.showFeedback = NONE
    /\ cfg.successMessage = NONE
    /\ cfg.errorMessage = NONE

\* A handleSubmit without the rule for the empty configuration object.
NormalizeConfig_KeepEmpty(cfg) == cfg

\* The reassignment of feedbackConfig before the submission starts.
NormalizeConfig(cfg) ==
    IF IsEmptyConfig(cfg) THEN Config("false", NONE, NONE) ELSE cfg

\* !feedbackConfig || feedbackConfig.showFeedback !== false
FeedbackEnabled(cfg) == ~cfg.present \/ cfg.showFeedback # "false"

\* What onSubmit resolves with: undefined, or an object.
Undefined == [t |-> "undefined", message |-> NONE, data |-> "none",
              dataMessage |-> NONE]
Obj(message, data, dataMessage) ==
    [t |-> "object", message |-> message, data |-> data,
     dataMessage |-> dataMessage]
\* What onSubmit rejects with, besides objects: a string or null.
Str == [t |-> "string", message |-> NONE, data |-> "none", dataMessage |-> NONE]
Null == [t |-> "null", message |-> NONE, data |-> "none", dataMessage |-> NONE]

\* typeof result === "object" && result !== null && "message" in result
\*     ? result.message : undefined
ResultMessage(result) ==
    IF result.t = "object" /\ result.message # NONE THEN result.message ELSE NONE

SuccessMessage(result, cfg) ==
    FirstTruthy(<<ResultMessage(result), cfg.successMessage, "Done!">>)

\* error?.message
ErrorField(error) == IF error.t = "object" THEN error.message ELSE NONE

\* error?.data?.message
ErrorDataField(error) ==
    IF error.t = "object" /\ error.data = "object" THEN error.dataMessage
    ELSE NONE

DefaultErrorMessage == "An error occurred. Please try again."

\* A catch block that prefers error.data.message to error.message.
ErrorMessage_DataFirst(error, cfg) ==
    FirstTruthy(<<ErrorDataField(error), ErrorField(error), cfg.errorMessage,
                  DefaultErrorMessage>>)

ErrorMessage(error, cfg) ==
    FirstTruthy(<<ErrorField(error), ErrorDataField(error), cfg.errorMessage,
                  DefaultErrorMessage>>)

\* The yup revision evaluates error?.message || error.data.message || ...:
\* reading .data of null or undefined, or .message of an undefined data,
\* raises a TypeError inside the catch block.
TypeError == "<TypeError>"

SchemaErrorMessage(error, cfg) ==
    IF Truthy(ErrorField(error)) THEN ErrorField(error)
    ELSE IF error.t \in {"null", "undefined"} \/ error.data # "object"
    THEN TypeError
    ELSE FirstTruthy(<<error.dataMessage, cfg.errorMessage,
                       DefaultErrorMessage>>)

CaughtMessage(error, cfg) ==
    IF impl = "schema" THEN SchemaErrorMessage(error, cfg)
    ELSE ErrorMessage(error, cfg)

\* The state a handleSubmit continuation works on: what the setters it calls
\* have queued, the feedback manager, and what the run did so far.
Start(i) ==
    [status |-> submissionStatus,
     form |-> [values |-> values, errors |-> errors, touched |-> touched],
     mgr |-> Manager,
     promise |-> "pending", trace |-> runs[i].trace, sent |-> <<>>,
     result |-> Undefined, caught |-> Undefined]

\* A status setter that takes a failed submission straight back to idle.
UpdateSubmissionStatus_ErrorToIdle(c, status) ==
    [c EXCEPT !.status = IF status = "error" THEN "idle" ELSE status,
              !.trace = Append(@, status)]

\* updateSubmissionStatus(status)
UpdateSubmissionStatus(c, status) ==
    [c EXCEPT !.status = status, !.trace = Append(@, status)]

\* feedbackManager.addFeedback(message, { variant, onClose: resetSubmissionStatus })
ShowFeedback(c, message, variant) ==
    [c EXCEPT !.mgr = AddFeedback(@, now, message, variant, TRUE, TRUE),
              !.sent = Append(@, [variant |-> variant, message |-> message]),
              !.trace = Append(@, "addFeedback:" \o variant)]

\* The catch block.
Catch(c, cfg, error) ==
    LET c1 == [UpdateSubmissionStatus(c, "error") EXCEPT !.caught = error]
        msg == CaughtMessage(error, cfg)
    IN IF ~FeedbackEnabled(cfg) THEN [c1 EXCEPT !.promise = "fulfilled"]
       ELSE IF msg = TypeError
       THEN [c1 EXCEPT !.promise = "rejected", !.trace = Append(@, "throw")]
       ELSE IF ~Truthy(msg) THEN [c1 EXCEPT !.promise = "fulfilled"]
       ELSE [ShowFeedback(c1, msg, "error") EXCEPT !.promise = "fulfilled"]

\* updateSubmissionStatus("success") after onSubmit resolved with result.
MarkSuccess(c, result) ==
    [UpdateSubmissionStatus(c, "success") EXCEPT !.result = result]

\* The success feedback.
ShowSuccess(c, cfg) ==
    LET msg == SuccessMessage(c.result, cfg)
    IN IF FeedbackEnabled(cfg) /\ Truthy(msg)
       THEN ShowFeedback(c, msg, "success")
       ELSE c

\* resetForm(), with the initialValues of the render that called handleSubmit.
CallResetForm(c, run) ==
    [c EXCEPT !.form = [values |-> ResetTarget(run.resetTo),
                        errors |-> EmptyMap, touched |-> EmptyMap],
              !.trace = Append(@, "resetForm")]

\* onSuccess?.(result), inside the try block.
CallOnSuccess(c, run, thrown) ==
    CASE run.onSuccess = "absent" -> [c EXCEPT !.promise = "fulfilled"]
      [] run.onSuccess = "returns" ->
            [c EXCEPT !.promise = "fulfilled", !.trace = Append(@, "onSuccess")]
      [] run.onSuccess = "throws" ->
            Catch([c EXCEPT !.trace = Append(@, "onSuccess")],
                  run.feedbackConfig, thrown)

\* A try block that resets the form before it records the success.
AfterResolve_ResetFirst(c, run, result, thrown) ==
    CallOnSuccess(
        ShowSuccess(MarkSuccess(CallResetForm(c, run), result),
                    run.feedbackConfig),
        run, thrown)

\* The try block after onSubmit resolved with result.
AfterResolve(c, run, result, thrown) ==
    CallOnSuccess(
        CallResetForm(ShowSuccess(MarkSuccess(c, result), run.feedbackConfig),
                      run),
        run, thrown)

\* A handleSubmit that returns after validation while the form is submitting.
HandleSubmit_OneAtATime(resolver, cfg, onSuccess) ==
    LET result == ValidateResult(resolver)
        passed == ValidateReturn(result) /\ submissionStatus # "submitting"
        run == [resolverResult |-> result, resetTo |-> renderInitial,
                cfgArg |-> cfg, feedbackConfig |-> NormalizeConfig(cfg),
                onSuccess |-> onSuccess,
                onSubmitArg |-> IF passed THEN <<renderValues>> ELSE <<>>,
                promise |-> IF passed THEN "pending" ELSE "fulfilled",
                trace |-> IF passed THEN <<"validate", "submitting", "onSubmit">>
                          ELSE <<"validate">>,
                sent |-> <<>>, result |-> Undefined, caught |-> Undefined]
    IN /\ Len(runs) < MaxRuns
       /\ impl = "schema" => onSuccess = "absent"
       /\ errors' = ValidateErrors(errors, result)
       /\ submissionStatus' = IF passed THEN "submitting" ELSE submissionStatus
       /\ runs' = Append(runs, run)
       /\ UNCHANGED <<values, touched, renderVars, lastCall, feedbacks,
                      timers, now, audience, widgets>>

\* handleSubmit up to the await: validate, then either return or mark the
\* form submitting and call onSubmit with the values of the render.
HandleSubmit(resolver, cfg, onSuccess) ==
    LET result == ValidateResult(resolver)
        passed == ValidateReturn(result)
        run == [resolverResult |-> result, resetTo |-> renderInitial,
                cfgArg |-> cfg, feedbackConfig |-> NormalizeConfig(cfg),
                onSuccess |-> onSuccess,
                onSubmitArg |-> IF passed THEN <<renderValues>> ELSE <<>>,
                promise |-> IF passed THEN "pending" ELSE "fulfilled",
                trace |-> IF passed THEN <<"validate", "submitting", "onSubmit">>
                          ELSE <<"validate">>,
                sent |-> <<>>, result |-> Undefined, caught |-> Undefined]
    IN /\ Len(runs) < MaxRuns
       /\ impl = "schema" => onSuccess = "absent"
       /\ errors' = ValidateErrors(errors, result)
       /\ submissionStatus' = IF passed THEN "submitting" ELSE submissionStatus
       /\ runs' = Append(runs, run)
       /\ UNCHANGED <<values, touched, renderVars, lastCall, feedbacks,
                      timers, now, audience, widgets>>

\* The promise onSubmit returned settles and the rest of handleSubmit runs.
Continue(i, c) ==
    /\ submissionStatus' = c.status
    /\ values' = c.form.values
    /\ errors' = c.form.errors
    /\ touched' = c.form.touched
    /\ Becomes(c.mgr)
    /\ runs' = [runs EXCEPT ![i] =
                    [@ EXCEPT !.promise = c.promise, !.trace = c.trace,
                              !.sent = c.sent, !.result = c.result,
                              !.caught = c.caught]]
    /\ UNCHANGED <<widgets, renderVars, lastCall, now>>

SettleResolve(i, result, thrown) ==
    /\ i \in DOMAIN runs
    /\ runs[i].promise = "pending"
    /\ Continue(i, AfterResolve(Start(i), runs[i], result, thrown))

SettleReject(i, error) ==
    /\ i \in DOMAIN runs
    /\ runs[i].promise = "pending"
    /\ Continue(i, Catch(Start(i), runs[i].feedbackConfig, error))

----------------------------------------------------------------------------
(* Date: the calendar arithmetic of the JavaScript Date the picker relies on *)

\* null, as a Date | null.
NULL == [t |-> "null"]

\* new Date(NaN)
InvalidDate == [t |-> "Invalid Date"]

\* undefined, as a Date | undefined.
NoDate == [t |-> "undefined"]

IsLeapYear(y) == (y % 4 = 0 /\ y % 100 # 0) \/ y % 400 = 0

DaysInMonth(y, m) ==
    IF m = 2 THEN (IF IsLeapYear(y) THEN 29 ELSE 28)
    ELSE IF m \in {4, 6, 9, 11} THEN 30 ELSE 31

\* A local date and time of day; m is 1..12.
DateTime(y, m, d, h, mi) == [y |-> y, m |-> m, d |-> d, h |-> h, mi |-> mi]

\* A day count carried into the calendar: days below 1 borrow from the
\* month before, days past the month's end carry into the next.
RECURSIVE CarryDays(_, _, _)
CarryDays(y, m, d) ==
    IF d < 1
    THEN (IF m = 1 THEN CarryDays(y - 1, 12, d + 31)
          ELSE CarryDays(y, m - 1, d + DaysInMonth(y, m - 1)))
    ELSE IF d > DaysInMonth(y, m)
    THEN (IF m = 12 THEN CarryDays(y + 1, 1, d - 31)
          ELSE CarryDays(y, m + 1, d - DaysInMonth(y, m)))
    ELSE DateTime(y, m, d, 0, 0)

\* new Date(year, monthIndex, day): years 0..99 mean 1900..1999, and a
\* monthIndex or day outside the calendar is carried over.
NewDate(year, monthIndex, day) ==
    LET full == IF year \in 0..99 THEN 1900 + year ELSE year
    IN CarryDays(full + (monthIndex \div 12), (monthIndex % 12) + 1, day)

\* date.setHours(h, mi)
SetHours(date, h, mi) == [date EXCEPT !.h = h, !.mi = mi]

\* date.getDay(): 0 is Sunday, 6 is Saturday.
GetDay(date) ==
    LET m == IF date.m < 3 THEN date.m + 12 ELSE date.m
        y == IF date.m < 3 THEN date.y - 1 ELSE date.y
        k == y % 100
        j == y \div 100
        h == (date.d + ((13 * (m + 1)) \div 5) + k + (k \div 4) + (j \div 4)
                 + 5 * j) % 7
    IN (h + 6) % 7

\* The order of two dates under < and >.
Stamp(date) ==
    (((date.y * 12 + date.m) * 31 + date.d) * 24 + date.h) * 60 + date.mi

----------------------------------------------------------------------------
(* Text: a string is the sequence of its characters; the letters of a word
   are kept together as one element *)

DigitChars == <<"0", "1", "2", "3", "4", "5", "6", "7", "8", "9">>

\* /\d/
IsDigit(c) == \E i \in DOMAIN DigitChars : DigitChars[i] = c

DigitValue(c) == (CHOOSE i \in DOMAIN DigitChars : DigitChars[i] = c) - 1

\* n.toString() of a natural number
RECURSIVE ToDigits(_)
ToDigits(n) ==
    IF n < 10 THEN <<DigitChars[n + 1]>>
    ELSE ToDigits(n \div 10) \o <<DigitChars[(n % 10) + 1]>>

\* text.padStart(2, "0")
PadStart2(text) == IF Len(text) < 2 THEN <<"0">> \o text ELSE text

\* Number(text) of a text of digits
RECURSIVE ToNumber(_)
ToNumber(text) ==
    IF text = <<>> THEN 0
    ELSE 10 * ToNumber(SubSeq(text, 1, Len(text) - 1))
            + DigitValue(text[Len(text)])

\* text.slice(from, to), with 0-based bounds
Slice(text, from, to) ==
    SubSeq(text, from + 1, IF to < Len(text) THEN to ELSE Len(text))

\* text.replace(/[^0-9]/g, "")
RECURSIVE OnlyDigits(_)
OnlyDigits(text) ==
    IF text = <<>> THEN <<>>
    ELSE (IF IsDigit(Head(text)) THEN <<Head(text)>> ELSE <<>>)
            \o OnlyDigits(Tail(text))

AllDigits(text) == \A k \in DOMAIN text : IsDigit(text[k])

\* Whether part occurs in text.
Includes(text, part) ==
    \E k \in 0..(Len(text) - Len(part)) :
        SubSeq(text, k + 1, k + Len(part)) = part

\* text.split(/[: ]/): the parts of text between the separators.
RECURSIVE SplitOn(_, _, _)
SplitOn(text, seps, part) ==
    IF text = <<>> THEN <<part>>
    ELSE IF Head(text) \in seps
    THEN <<part>> \o SplitOn(Tail(text), seps, <<>>)
    ELSE SplitOn(Tail(text), seps, Append(part, Head(text)))

----------------------------------------------------------------------------
(* DateInput: formatting and parsing *)

DateFormats ==
    {"MM/dd/yyyy", "dd/MM/yyyy", "yyyy-MM-dd", "MMMM dd, yyyy", "LLL dd, yyyy"}

\* The month names of Intl for the locales the page may run in.
MonthLong(locale) ==
    IF locale = "de-DE"
    THEN <<"Januar", "Februar", "März", "April", "Mai", "Juni", "Juli",
           "August", "September", "Oktober", "November", "Dezember">>
    ELSE <<"January", "February", "March", "April", "May", "June", "July",
           "August", "September", "October", "November", "December">>

MonthShort(locale) ==
    IF locale = "de-DE"
    THEN <<"Jan", "Feb", "Mär", "Apr", "Mai", "Jun", "Jul", "Aug", "Sep",
           "Okt", "Nov", "Dez">>
    ELSE <<"Jan", "Feb", "Mar", "Apr", "May", "Jun", "Jul", "Aug", "Sep",
           "Oct", "Nov", "Dec">>

\* formatDate(date)
FormatDate(p, date) ==
    LET day == PadStart2(ToDigits(date.d))
        month == PadStart2(ToDigits(date.m))
        year == ToDigits(date.y)
    IN IF date \in {NULL, NoDate} THEN <<>>
       ELSE CASE p.dateFormat = "MM/dd/yyyy" -> month \o <<"/">> \o day \o <<"/">> \o year
              [] p.dateFormat = "dd/MM/yyyy" -> day \o <<"/">> \o month \o <<"/">> \o year
              [] p.dateFormat = "yyyy-MM-dd" -> year \o <<"-">> \o month \o <<"-">> \o day
              [] p.dateFormat = "MMMM dd, yyyy" ->
                    <<MonthLong(p.locale)[date.m], " ">> \o day \o <<",", " ">> \o year
              [] p.dateFormat = "LLL dd, yyyy" ->
                    <<MonthShort(p.locale)[date.m], " ">> \o day \o <<",", " ">> \o year
              [] OTHER -> day \o <<"/">> \o month \o <<"/">> \o year

\* formatTime(date)
FormatTime(date) ==
    LET period == IF date.h >= 12 THEN "PM" ELSE "AM"
        displayHours == IF date.h % 12 = 0 THEN 12 ELSE date.h % 12
    IN PadStart2(ToDigits(displayHours)) \o <<":">> \o PadStart2(ToDigits(date.mi))
          \o <<" ", period>>

\* The text updateInputValue(date) puts in the input.
DisplayText(p, date) ==
    IF date = NULL THEN <<>>
    ELSE IF p.timePicker THEN FormatDate(p, date) \o <<" ">> \o FormatTime(date)
    ELSE FormatDate(p, date)

\* The masking of handleInputChange: the digits of the raw text with the
\* separators of the format, or the raw text for the formats with a month name.
MaskInput(p, raw) ==
    LET digits == OnlyDigits(raw)
        Group(from, to, sep) ==
            IF Len(digits) > from THEN sep \o Slice(digits, from, to) ELSE <<>>
    IN CASE p.dateFormat \in {"MM/dd/yyyy", "dd/MM/yyyy"} ->
                Group(0, 2, <<>>) \o Group(2, 4, <<"/">>) \o Group(4, 8, <<"/">>)
         [] p.dateFormat = "yyyy-MM-dd" ->
                Group(0, 4, <<>>) \o Group(4, 6, <<"-">>) \o Group(6, 8, <<"-">>)
         [] OTHER -> raw

\* text.match(/^(\d{a})S(\d{b})S(\d{c})$/): the three numbers, or <<>>.
MatchNumbers(text, a, b, c, sep) ==
    IF /\ Len(text) = a + b + c + 2
       /\ text[a + 1] = sep
       /\ text[a + b + 2] = sep
       /\ AllDigits(SubSeq(text, 1, a))
       /\ AllDigits(SubSeq(text, a + 2, a + b + 1))
       /\ AllDigits(SubSeq(text, a + b + 3, a + b + c + 2))
    THEN <<ToNumber(SubSeq(text, 1, a)), ToNumber(SubSeq(text, a + 2, a + b + 1)),
           ToNumber(SubSeq(text, a + b + 3, a + b + c + 2))>>
    ELSE <<>>

\* The month a JavaScript engine reads from a word: it knows the English
\* names and their three-letter forms; 0 when it does not know the word.
EngineMonth(word) ==
    IF \E m \in 1..12 : word \in {MonthLong("en-US")[m], MonthShort("en-US")[m]}
    THEN CHOOSE m \in 1..12 : word \in {MonthLong("en-US")[m], MonthShort("en-US")[m]}
    ELSE 0

\* The month names with a letter outside a-z.
NonAsciiWords == {"März", "Mär"}

\* /^[a-zA-Z]+$/ on one element of a text
IsAsciiWord(word) ==
    /\ ~IsDigit(word)
    /\ word \notin {" ", ",", "/", "-", ":", "."} \cup NonAsciiWords

\* text.match(/^([a-zA-Z]+) (\d{2}), (\d{4})$/): <<word, day, year>>, or <<>>.
MatchMonthDayYear(text) ==
    IF /\ Len(text) = 10
       /\ IsAsciiWord(text[1])
       /\ text[2] = " "
       /\ AllDigits(SubSeq(text, 3, 4))
       /\ text[5] = ","
       /\ text[6] = " "
       /\ AllDigits(SubSeq(text, 7, 10))
    THEN <<text[1], ToNumber(SubSeq(text, 3, 4)), ToNumber(SubSeq(text, 7, 10))>>
    ELSE <<>>

\* new Date(text) for a text "<word> dd, yyyy": the date when the engine
\* knows the month and the month has that day, Invalid Date otherwise.
DateFromText(text) ==
    IF /\ Len(text) = 10
       /\ text[2] = " " /\ text[5] = "," /\ text[6] = " "
       /\ AllDigits(SubSeq(text, 3, 4)) /\ AllDigits(SubSeq(text, 7, 10))
       /\ EngineMonth(text[1]) # 0
       /\ ToNumber(SubSeq(text, 3, 4)) \in
             1..DaysInMonth(ToNumber(SubSeq(text, 7, 10)), EngineMonth(text[1]))
    THEN NewDate(ToNumber(SubSeq(text, 7, 10)), EngineMonth(text[1]) - 1,
                 ToNumber(SubSeq(text, 3, 4)))
    ELSE InvalidDate

\* The date validateAndPropagateDate reads from the text: a date, Invalid
\* Date, or null.
ParseTyped(p, text) ==
    CASE p.dateFormat = "MM/dd/yyyy" ->
            LET n == MatchNumbers(text, 2, 2, 4, "/")
            IN IF n = <<>> THEN NULL ELSE NewDate(n[3], n[1] - 1, n[2])
      [] p.dateFormat = "dd/MM/yyyy" ->
            LET n == MatchNumbers(text, 2, 2, 4, "/")
            IN IF n = <<>> THEN NULL ELSE NewDate(n[3], n[2] - 1, n[1])
      [] p.dateFormat = "yyyy-MM-dd" ->
            LET n == MatchNumbers(text, 4, 2, 2, "-")
            IN IF n = <<>> THEN NULL ELSE NewDate(n[1], n[2] - 1, n[3])
      [] p.dateFormat \in {"MMMM dd, yyyy", "LLL dd, yyyy"} ->
            LET date == DateFromText(text)
                match == MatchMonthDayYear(text)
            IN IF date # InvalidDate THEN date
               ELSE IF match = <<>> THEN date
               ELSE IF EngineMonth(match[1]) = 0 THEN date
               ELSE NewDate(match[3], EngineMonth(match[1]) - 1, match[2])
      [] OTHER -> NULL

----------------------------------------------------------------------------
(* DateInput: the component *)

\* "HH:MM"
Clock(h, mi) == PadStart2(ToDigits(h)) \o <<":">> \o PadStart2(ToDigits(mi))

\* minTime.split(":").map(Number)
ParseClock(text) ==
    LET parts == SplitOn(text, {":"}, <<>>)
    IN [h |-> ToNumber(parts[1]), mi |-> ToNumber(parts[2])]

\* isDateDisabled(date); minDate.setHours(0, 0, 0, 0) and
\* maxDate.setHours(23, 59, 59, 999) move the bounds to the ends of their day.
IsDateDisabled(p, date) ==
    \/ p.disabled
    \/ p.minDate # NoDate /\ Stamp(date) < Stamp(SetHours(p.minDate, 0, 0))
    \/ p.maxDate # NoDate /\ Stamp(date) > Stamp(SetHours(p.maxDate, 23, 59))
    \/ p.noWeekends /\ GetDay(date) \in {0, 6}

\* A message that names the upper bound only when there is no lower bound.
RangeMessage_OneBound(p) ==
    <<"Date must be ">>
    \o (IF p.minDate # NoDate THEN <<"after ">> \o FormatDate(p, p.minDate)
        ELSE <<>>)
    \o <<" ">>
    \o (IF p.maxDate # NoDate /\ p.minDate = NoDate
        THEN <<"and before ">> \o FormatDate(p, p.maxDate)
        ELSE <<>>)
    \o <<".">>

\* `Date must be ${minDate ? `after ${formatDate(minDate)}` : ''}
\*  ${maxDate ? `and before ${formatDate(maxDate)}` : ''}.`
RangeMessage(p) ==
    <<"Date must be ">>
    \o (IF p.minDate # NoDate THEN <<"after ">> \o FormatDate(p, p.minDate)
        ELSE <<>>)
    \o <<" ">>
    \o (IF p.maxDate # NoDate THEN <<"and before ">> \o FormatDate(p, p.maxDate)
        ELSE <<>>)
    \o <<".">>

\* validateAndPropagateDate(formattedValue): the error message it sets and
\* the argument of its onChange call.
ValidateAndPropagateDate(p, text) ==
    LET date == ParseTyped(p, text)
    IN IF date # NULL /\ date # InvalidDate
       THEN IF ~IsDateDisabled(p, date)
            THEN [errorMessage |-> <<>>, emitted |-> date]
            ELSE [errorMessage |-> IF IsDateDisabled(p, date) THEN RangeMessage(p)
                                   ELSE <<"Invalid date.">>,
                  emitted |-> NULL]
       ELSE [errorMessage |-> <<>>, emitted |-> NULL]

\* The slot of index i of renderTimePicker: "hh:mm AM" or "hh:mm PM".
SlotText(i) ==
    LET totalMinutes == i * 5
        hour24 == totalMinutes \div 60
        hour == IF hour24 % 12 = 0 THEN 12 ELSE hour24 % 12
        minute == totalMinutes % 60
        period == IF hour24 < 12 THEN "AM" ELSE "PM"
    IN PadStart2(ToDigits(hour)) \o <<":">> \o PadStart2(ToDigits(minute))
          \o <<" ", period>>

\* Array.from({ length: 288 }, ...) of renderTimePicker.
SlotCount == 288

\* The times of renderTimePicker, in the order the buttons are rendered.
Times == [n \in 1..SlotCount |-> SlotText(n - 1)]

\* The hour and minute handleTimeChange and isTimeDisabled read from a slot.
SlotClock(time) ==
    LET parts == SplitOn(time, {":", " "}, <<>>)
        hour == ToNumber(parts[1])
    IN [h |-> IF parts[3] = <<"PM">> THEN (hour % 12) + 12 ELSE hour % 12,
        mi |-> ToNumber(parts[2])]

\* isTimeDisabled(time)
IsTimeDisabled_Exclusive(p, time) ==
    LET t == SlotClock(time)
    IN \/ /\ p.minTime # <<>>
          /\ LET min == ParseClock(p.minTime)
             IN t.h < min.h \/ (t.h = min.h /\ t.mi <= min.mi)
       \/ /\ p.maxTime # <<>>
          /\ LET max == ParseClock(p.maxTime)
             IN t.h > max.h \/ (t.h = max.h /\ t.mi >= max.mi)

IsTimeDisabled(p, time) ==
    LET t == SlotClock(time)
    IN \/ /\ p.minTime # <<>>
          /\ LET min == ParseClock(p.minTime)
             IN t.h < min.h \/ (t.h = min.h /\ t.mi < min.mi)
       \/ /\ p.maxTime # <<>>
          /\ LET max == ParseClock(p.maxTime)
             IN t.h > max.h \/ (t.h = max.h /\ t.mi > max.mi)

\* calculatePosition of the DateInput and of the SelectBox: rect is the
\* bounding rectangle of the control read against window.innerHeight.
CalculatePosition_NoRoomCheck(rect, dropdownHeight) ==
    IF rect.spaceBelow < dropdownHeight THEN "above" ELSE "below"

CalculatePosition(rect, dropdownHeight) ==
    IF rect.spaceBelow < dropdownHeight /\ rect.top > dropdownHeight
    THEN "above"
    ELSE "below"

\* The position effect of the DateInput, which runs when isCalendarOpen has
\* changed and returns early while the calendar is closed.
CalendarPosition(p, isCalendarOpen) ==
    IF isCalendarOpen
    THEN CalculatePosition(layout.input, layout.input.scrollHeight)
    ELSE p.position

\* The day the page is opened: new Date() of the first render.
Today == DateTime(2024, 3, 1, 0, 0)

\* A DateInput with the given props, as its first render leaves it.
NewPicker(dateFormat, locale, minDate, maxDate, noWeekends, times, disabled) ==
    [dateFormat |-> dateFormat, locale |-> locale, minDate |-> minDate,
     maxDate |-> maxDate, noWeekends |-> noWeekends,
     timePicker |-> times.timePicker, minTime |-> times.minTime,
     maxTime |-> times.maxTime, disabled |-> disabled,
     value |-> NULL, inputValue |-> <<>>, errorMessage |-> <<>>,
     isCalendarOpen |-> FALSE, position |-> "below",
     currentMonth |-> Today.m - 1, currentYear |-> Today.y]

\* No timePicker, and the empty text for an absent minTime or maxTime.
NoTimes == [timePicker |-> FALSE, minTime |-> <<>>, maxTime |-> <<>>]

NoPickerEvent ==
    [kind |-> NONE, text |-> <<>>, date |-> NULL, called |-> FALSE,
     emitted |-> NoDate, before |-> NULL, minTimeApplied |-> FALSE,
     timeChosen |-> FALSE]

\* An event of the picker: what the handler did, and the parent rendering the
\* picker again with the value it was given by onChange.
PickerEvent(kind, text, date, called, emitted, minTimeApplied) ==
    pickerLog' = [kind |-> kind, text |-> text, date |-> date,
                  called |-> called, emitted |-> emitted,
                  before |-> picker.value,
                  minTimeApplied |-> minTimeApplied,
                  timeChosen |-> pickerLog.timeChosen \/ (kind = "time" /\ called)]

notPicker ==
    <<formVars, submissionStatus, renderVars, lastCall, runs, feedbacks, timers,
      now, audience, select, selectLog, layout>>

\* handleInputChange, and the effect that rewrites the input when the value
\* the parent passes has changed.
HandleInputChange(raw) ==
    LET formattedValue == MaskInput(picker, raw)
        r == ValidateAndPropagateDate(picker, formattedValue)
    IN /\ ~picker.disabled
       /\ picker' = [picker EXCEPT
                        !.errorMessage = r.errorMessage,
                        !.value = r.emitted,
                        !.inputValue =
                            IF r.emitted = NULL /\ picker.value = NULL
                            THEN formattedValue
                            ELSE DisplayText(picker, r.emitted)]
       /\ PickerEvent("type", raw, NULL, TRUE, r.emitted, FALSE)
       /\ UNCHANGED notPicker

\* A handleDateChange that applies minTime whenever it is set.
NewDateTime_AlwaysMinTime(p, date) ==
    IF ~p.timePicker THEN date
    ELSE IF p.minTime # <<>>
    THEN SetHours(date, ParseClock(p.minTime).h, ParseClock(p.minTime).mi)
    ELSE IF p.value # NULL THEN SetHours(date, p.value.h, p.value.mi)
    ELSE date

\* The newDate of handleDateChange.
NewDateTime(p, date) ==
    IF ~p.timePicker THEN date
    ELSE IF p.value # NULL THEN SetHours(date, p.value.h, p.value.mi)
    ELSE IF p.minTime # <<>>
    THEN SetHours(date, ParseClock(p.minTime).h, ParseClock(p.minTime).mi)
    ELSE date

\* A day button of the open calendar is clicked: handleDateChange(date).
HandleDateChange(day) ==
    LET date == NewDate(picker.currentYear, picker.currentMonth, day)
        newDate == NewDateTime(picker, date)
    IN /\ picker.isCalendarOpen
       /\ day \in 1..DaysInMonth(picker.currentYear, picker.currentMonth + 1)
       /\ ~IsDateDisabled(picker, date)
       /\ picker' = [picker EXCEPT
                        !.value = newDate,
                        !.inputValue = DisplayText(picker, newDate),
                        !.errorMessage = <<>>,
                        !.isCalendarOpen = picker.timePicker]
       /\ PickerEvent("day", <<>>, date, TRUE, newDate,
                      picker.timePicker /\ picker.value = NULL
                          /\ picker.minTime # <<>>)
       /\ UNCHANGED notPicker

\* The updatedDate of handleTimeChange.
UpdatedDate(value, time) ==
    SetHours(value, SlotClock(time).h, SlotClock(time).mi)

\* An enabled slot button is clicked: handleTimeChange(time).
HandleTimeChange(i) ==
    LET time == SlotText(i)
    IN /\ picker.isCalendarOpen
       /\ picker.timePicker
       /\ ~IsTimeDisabled(picker, time)
       /\ IF picker.value # NULL
          THEN LET updatedDate == UpdatedDate(picker.value, time)
               IN /\ picker' = [picker EXCEPT
                                   !.value = updatedDate,
                                   !.inputValue = DisplayText(picker, updatedDate),
                                   !.isCalendarOpen = FALSE]
                  /\ PickerEvent("time", time, NULL, TRUE, updatedDate, FALSE)
          ELSE /\ PickerEvent("time", time, NULL, FALSE, NoDate, FALSE)
               /\ UNCHANGED picker
       /\ UNCHANGED notPicker

\* A slot button rendered with disabled={isDisabled} is clicked: its onClick
\* is !isDisabled && handleTimeChange(formattedTime).
ClickDisabledTime(i) ==
    LET time == SlotText(i)
    IN /\ picker.isCalendarOpen
       /\ picker.timePicker
       /\ IsTimeDisabled(picker, time)
       /\ PickerEvent("disabled", time, NULL, FALSE, NoDate, FALSE)
       /\ UNCHANGED picker
       /\ UNCHANGED notPicker

\* toggleCalendar
ToggleCalendar ==
    /\ ~picker.disabled
    /\ picker' = [picker EXCEPT
                     !.isCalendarOpen = ~@,
                     !.position = CalendarPosition(picker, ~picker.isCalendarOpen)]
    /\ UNCHANGED <<pickerLog, notPicker>>

\* onFocus of the input
FocusInput ==
    /\ ~picker.disabled
    /\ picker' = [picker EXCEPT
                     !.isCalendarOpen = TRUE,
                     !.position = CalendarPosition(picker, TRUE)]
    /\ UNCHANGED <<pickerLog, notPicker>>

\* handleOutsideClick, which listens while the calendar is open
HandleOutsideClick ==
    /\ picker.isCalendarOpen
    /\ picker' = [picker EXCEPT !.isCalendarOpen = FALSE]
    /\ UNCHANGED <<pickerLog, notPicker>>

\* The month and year selects of the calendar header.
SelectMonth(monthIndex) ==
    /\ picker.isCalendarOpen
    /\ ~picker.disabled
    /\ picker' = [picker EXCEPT !.currentMonth = monthIndex]
    /\ UNCHANGED <<pickerLog, notPicker>>

SelectYear(year) ==
    /\ picker.isCalendarOpen
    /\ ~picker.disabled
    /\ picker' = [picker EXCEPT !.currentYear = year]
    /\ UNCHANGED <<pickerLog, notPicker>>

----------------------------------------------------------------------------
(* SelectBox *)

Min(a, b) == IF a < b THEN a ELSE b

\* String.prototype.toLowerCase, on the letters the labels and searches use.
ToLowerCase(text) ==
    [k \in DOMAIN text |-> IF text[k] = "O" THEN "o" ELSE text[k]]

\* The label of the k-th option.
OptionLabel(k) == <<"O", "p", "t", "i", "o", "n", " ">> \o ToDigits(k)

\* options: the list the SelectBox is given.
Options ==
    [k \in 1..OptionCount |-> [label |-> OptionLabel(k), value |-> ToDigits(k)[1]]]

OptionValues == {Options[k].value : k \in DOMAIN Options}

\* A string the component returns or renders, and undefined.
Text(text) == [defined |-> TRUE, text |-> text]
UndefinedText == [defined |-> FALSE, text |-> <<>>]

\* options.find(o => o.value === val)?.label
FindLabel(options, val) ==
    IF \E k \in DOMAIN options : options[k].value = val
    THEN Text(options[CHOOSE k \in DOMAIN options :
                        /\ options[k].value = val
                        /\ \A j \in 1..(k - 1) : options[j].value # val].label)
    ELSE UndefinedText

\* selectedLabels.join(', '), in which undefined joins as the empty string.
RECURSIVE Join(_)
Join(labels) ==
    IF labels = <<>> THEN <<>>
    ELSE IF Len(labels) = 1 THEN Head(labels).text
    ELSE Head(labels).text \o <<",", " ">> \o Join(Tail(labels))

\* displayValue(): selected is value when it is an array and [value]
\* otherwise, which is what the items of a value of the model are.
DisplayValue(s) ==
    LET selected == s.value.items
    IN IF Len(selected) > 0
       THEN IF s.multiple
            THEN IF Len(selected) > 3
                 THEN Text(ToDigits(Len(selected)) \o <<" of ">>
                           \o ToDigits(Len(s.options)) \o <<" selected">>)
                 ELSE Text(Join([k \in DOMAIN selected |->
                                    FindLabel(s.options, selected[k])]))
            ELSE FindLabel(s.options, selected[1])
       ELSE Text(s.placeholder)

\* filteredOptions, as the set of the indexes of the options it keeps.
FilteredOptions(s) ==
    {k \in DOMAIN s.options :
        Includes(ToLowerCase(s.options[k].label), ToLowerCase(s.search))}

RECURSIVE Filter(_, _)
\* updated.filter(v => v !== val)
Filter(items, val) ==
    IF items = <<>> THEN <<>>
    ELSE IF Head(items) = val THEN Filter(Tail(items), val)
    ELSE <<Head(items)>> \o Filter(Tail(items), val)

\* A SelectBox with the given props, as its first render leaves it.
NewSelect(multiple, disabled, value) ==
    [options |-> Options, multiple |-> multiple, disabled |-> disabled,
     placeholder |-> <<"Select...">>, value |-> value,
     isOpen |-> FALSE, search |-> <<>>, position |-> "below"]

NoSelectEvent ==
    [kind |-> NONE, arg |-> NONE, called |-> FALSE, emitted |-> Arr(<<>>),
     before |-> Arr(<<>>), wasOpen |-> FALSE]

\* An event of the select box: what the handler did; the parent renders the
\* select box again with the value it was given by onChange.
SelectEvent(kind, arg, called, emitted) ==
    selectLog' = [kind |-> kind, arg |-> arg, called |-> called,
                  emitted |-> emitted, before |-> select.value,
                  wasOpen |-> select.isOpen]

notSelect ==
    <<formVars, submissionStatus, renderVars, lastCall, runs, feedbacks, timers,
      now, audience, picker, pickerLog, layout>>

\* The position effect of the SelectBox, which runs when isOpen, options or
\* search has changed and returns early while there is no dropdown.
DropdownPosition(s, isOpen) ==
    IF isOpen /\ ~s.disabled
    THEN CalculatePosition(layout.control, Min(250, layout.control.scrollHeight))
    ELSE s.position

\* toggleDropdown, and the position effect that follows it.
Toggled(s) ==
    IF s.disabled THEN s
    ELSE [s EXCEPT !.isOpen = ~@,
                   !.position = DropdownPosition(s, ~s.isOpen)]

\* The places of the document a mousedown can land on.
Targets == {"outside", "control", "dropdown"}

\* handleClickOutside(event): dropdownRef.current is the dropdown panel, which
\* is rendered while isOpen && !disabled, and the control is not inside it.
AfterMouseDown(s, target) ==
    IF (s.isOpen /\ ~s.disabled) /\ target # "dropdown"
    THEN [s EXCEPT !.isOpen = FALSE]
    ELSE s

\* A click event alone on the control: toggleDropdown.
ToggleDropdown ==
    /\ select' = Toggled(select)
    /\ SelectEvent("toggle", NONE, FALSE, Arr(<<>>))
    /\ UNCHANGED notSelect

\* A mousedown on the document outside the select box.
HandleClickOutside ==
    /\ select' = AfterMouseDown(select, "outside")
    /\ SelectEvent("outside", NONE, FALSE, Arr(<<>>))
    /\ UNCHANGED notSelect

\* The user clicks the control: the document receives the mousedown, the
\* component renders, and the control receives the click.
ClickControl ==
    /\ select' = Toggled(AfterMouseDown(select, "control"))
    /\ SelectEvent("control", NONE, FALSE, Arr(<<>>))
    /\ UNCHANGED notSelect

\* A handleOptionClick that puts a value that was absent first.
NewValue_Prepend(value, val) ==
    LET updated == IF value.arr THEN value.items ELSE <<>>
    IN IF \E k \in DOMAIN updated : updated[k] = val
       THEN Filter(updated, val)
       ELSE <<val>> \o updated

\* The newValue of handleOptionClick.
NewValue(value, val) ==
    LET updated == IF value.arr THEN value.items ELSE <<>>
    IN IF \E k \in DOMAIN updated : updated[k] = val
       THEN Filter(updated, val)
       ELSE updated \o <<val>>

\* An option of the open dropdown is clicked: handleOptionClick(val).
HandleOptionClick(k) ==
    LET val == select.options[k].value
    IN /\ select.isOpen
       /\ ~select.disabled
       /\ k \in FilteredOptions(select)
       /\ IF select.multiple
          THEN /\ select' = [select EXCEPT !.value = Arr(NewValue(select.value, val))]
               /\ SelectEvent("option", val, TRUE, Arr(NewValue(select.value, val)))
          ELSE /\ select' = [select EXCEPT !.value = Scalar(val), !.isOpen = FALSE]
               /\ SelectEvent("option", val, TRUE, Scalar(val))
       /\ UNCHANGED notSelect

\* A handleSelectAll that takes the options the search leaves.
AllValues_Filtered(s) ==
    SelectSeq([k \in DOMAIN s.options |-> s.options[k].value],
              LAMBDA v : \E k \in FilteredOptions(s) : s.options[k].value = v)

\* options.map(option => option.value)
AllValues(s) == [k \in DOMAIN s.options |-> s.options[k].value]

\* The Select All button, which multiple mode renders: handleSelectAll.
HandleSelectAll ==
    /\ select.isOpen
    /\ ~select.disabled
    /\ select.multiple
    /\ select' = [select EXCEPT !.value = Arr(AllValues(select)), !.isOpen = FALSE]
    /\ SelectEvent("selectAll", NONE, TRUE, Arr(AllValues(select)))
    /\ UNCHANGED notSelect

\* The Clear All button, which multiple mode renders while the value is a
\* list that is not empty: handleClearSelected.
HandleClearSelected ==
    /\ select.isOpen
    /\ ~select.disabled
    /\ select.multiple
    /\ select.value.arr /\ Len(select.value.items) > 0
    /\ select' = [select EXCEPT !.value = Arr(<<>>)]
    /\ SelectEvent("clearAll", NONE, TRUE, Arr(<<>>))
    /\ UNCHANGED notSelect

\* The search input of the open dropdown: setSearch(e.target.value).
SetSearch(text) ==
    /\ select.isOpen
    /\ ~select.disabled
    /\ select' = [select EXCEPT !.search = text,
                                !.position = DropdownPosition(select, TRUE)]
    /\ SelectEvent("search", NONE, FALSE, Arr(<<>>))
    /\ UNCHANGED notSelect

\* The window is scrolled or resized: the calculatePosition listeners of the
\* open panels run against the new geometry.
ScrollOrResize(l) ==
    /\ layout' = l
    /\ picker' = [picker EXCEPT
                     !.position =
                         IF picker.isCalendarOpen
                         THEN CalculatePosition(l.input, l.input.scrollHeight)
                         ELSE @]
    /\ select' = [select EXCEPT
                     !.position =
                         IF select.isOpen /\ ~select.disabled
                         THEN CalculatePosition(l.control,
                                                Min(250, l.control.scrollHeight))
                         ELSE @]
    /\ UNCHANGED <<formVars, submissionStatus, renderVars, lastCall, runs,
                   feedbacks, timers, now, audience, pickerLog, selectLog>>

\* A control with room on both sides of it.
Rect(top, spaceBelow, scrollHeight) ==
    [top |-> top, spaceBelow |-> spaceBelow, scrollHeight |-> scrollHeight]

DefaultLayout == [input |-> Rect(400, 400, 300), control |-> Rect(400, 400, 200)]

----------------------------------------------------------------------------
(* The specifications *)

OnSuccessKinds == {"returns", "throws"}
SubmitConfigs == {NoConfig, Config("false", NONE, NONE)}
Results == {Undefined}
Errors == {Obj("M", "none", NONE)}

\* A page whose DateInput has the default props and is left alone.
DefaultPicker ==
    /\ picker = NewPicker("dd/MM/yyyy", "en-US", NoDate, NoDate, FALSE, NoTimes, FALSE)
    /\ pickerLog = NoPickerEvent

\* A page whose SelectBox has the default props and is left alone.
DefaultSelect ==
    /\ select = NewSelect(FALSE, FALSE, Arr(<<>>))
    /\ selectLog = NoSelectEvent
    /\ layout = DefaultLayout

Init == InitWith("resolver") /\ DefaultPicker /\ DefaultSelect

\* The form, the submission pipeline and the feedback manager together.
Next ==
    \/ Render(InitialValues)
    \/ \E v \in ScalarInputs : SetFieldValue("a", Scalar(v))
    \/ ResetSubmissionStatus
    \/ \E r \in ValidateFns, cfg \in SubmitConfigs, os \in OnSuccessKinds :
            HandleSubmit(r, cfg, os)
    \/ \E i \in DOMAIN runs, result \in Results, thrown \in Errors :
            SettleResolve(i, result, thrown)
    \/ \E i \in DOMAIN runs, error \in Errors : SettleReject(i, error)
    \/ \E k \in DOMAIN timers : FireTimer(k)
    \/ \E k \in DOMAIN feedbacks : ClickClose(k)
    \/ Tick

Spec == Init /\ [][Next]_vars

\* The same application when it calls resetSubmissionStatus only after a
\* submission has ended, from success or from error.
ResetWhenSettled ==
    /\ submissionStatus \in {"success", "error"}
    /\ ResetSubmissionStatus

NextOverlap ==
    \/ \E r \in ValidateFns, cfg \in SubmitConfigs, os \in OnSuccessKinds :
            HandleSubmit(r, cfg, os)
    \/ \E i \in DOMAIN runs, result \in Results, thrown \in Errors :
            SettleResolve(i, result, thrown)
    \/ \E i \in DOMAIN runs, error \in Errors : SettleReject(i, error)
    \/ \E k \in DOMAIN timers : FireTimer(k)
    \/ ResetWhenSettled
    \/ Tick

SpecOverlap == Init /\ [][NextOverlap]_vars

\* The form state container alone.
NextStore ==
    \/ \E iv \in InitialChoices : Render(iv)
    \/ \E f \in FieldNames, v \in ScalarInputs : SetFieldValue(f, Scalar(v))
    \/ \E f \in FieldNames : SetFieldArrayValue(f, Scalar("x"))
    \/ \E f \in FieldNames, q \in ArrayInputs : SetFieldArrayValue(f, Arr(q))
    \/ \E f \in FieldNames, e \in ErrorInputs : SetFieldError(f, e)
    \/ \E f \in FieldNames, t \in BOOLEAN : SetFieldTouched(f, t)
    \/ \E fn \in ValidateFns : Validate(fn)
    \/ ResetForm

SpecStore == Init /\ [][NextStore]_vars

\* The messages and configurations handleSubmit is given.
MessageConfigs ==
    {NoConfig, Config(NONE, NONE, NONE), Config("false", "S", "E"),
     Config(NONE, "S", "E"), Config("true", "", "")}
MessageResults == {Undefined, Obj("R", "none", NONE), Obj("", "none", NONE)}
MessageErrors ==
    {Obj("M", "object", "D"), Obj(NONE, "object", "D"), Obj("", "object", ""),
     Null}
ThrownByOnSuccess == {Str}

NextMessages ==
    \/ \E cfg \in MessageConfigs, os \in {"absent", "throws"} :
            HandleSubmit("valid", cfg, os)
    \/ \E i \in DOMAIN runs, result \in MessageResults,
            thrown \in ThrownByOnSuccess :
            SettleResolve(i, result, thrown)
    \/ \E i \in DOMAIN runs, error \in MessageErrors : SettleReject(i, error)

SpecMessages == Init /\ [][NextMessages]_vars

\* The application imports the yup revision of handleSubmit, which takes no
\* onSuccess.
InitSchema == InitWith("schema") /\ DefaultPicker /\ DefaultSelect

NextSchema ==
    \/ \E v \in ScalarInputs : SetFieldValue("a", Scalar(v))
    \/ Render(InitialValues)
    \/ \E r \in ValidateFns, cfg \in SubmitConfigs : HandleSubmit(r, cfg, "absent")
    \/ \E i \in DOMAIN runs, result \in Results :
            SettleResolve(i, result, Undefined)
    \/ \E i \in DOMAIN runs, error \in MessageErrors : SettleReject(i, error)
    \/ \E k \in DOMAIN timers : FireTimer(k)
    \/ Tick

SpecSchema == InitSchema /\ [][NextSchema]_vars

\* The form of an application that validates with yupResolver: the store
\* operations and submissions without feedback.
ElementInputs == { <<"">>, <<"x">> }

NextKeys ==
    \/ Render(InitialValues)
    \/ \E q \in ElementInputs : SetFieldArrayValue("a", Arr(q))
    \/ SetFieldValue("b", Scalar("x"))
    \/ \E e \in ErrorInputs : SetFieldError("b", e)
    \/ SetFieldTouched("a", TRUE)
    \/ \E fn \in SchemaResolvers : Validate(fn)
    \/ ResetForm
    \/ \E fn \in SchemaResolvers :
            HandleSubmit(fn, Config("false", NONE, NONE), "absent")
    \/ \E i \in DOMAIN runs : SettleResolve(i, Undefined, Undefined)
    \/ \E i \in DOMAIN runs, error \in Errors : SettleReject(i, error)

SpecKeys == Init /\ [][NextKeys]_vars

\* The feedback manager and the components that subscribe to it.
NextManager ==
    \/ \E l \in ListenerPool : Subscribe(l)
    \/ \E l \in ListenerPool : Unsubscribe(l)
    \/ \E autoDismiss \in BOOLEAN : CallAddFeedback("m", autoDismiss)
    \/ \E k \in DOMAIN timers : FireTimer(k)
    \/ \E k \in DOMAIN feedbacks : ClickClose(k)
    \/ Tick

SpecManager == Init /\ [][NextManager]_vars

\* A DateInput bound to a field of the form, under each combination of props.
MinDates == {NoDate, DateTime(2024, 3, 2, 0, 0)}
MaxDates == {NoDate, DateTime(2024, 3, 4, 0, 0)}
Locales == {"en-US", "de-DE"}
TimeProps ==
    {NoTimes,
     [timePicker |-> TRUE, minTime |-> <<>>, maxTime |-> <<>>],
     [timePicker |-> TRUE, minTime |-> Clock(9, 0), maxTime |-> <<>>],
     [timePicker |-> TRUE, minTime |-> Clock(9, 0), maxTime |-> Clock(17, 0)]}

\* What the user types: the dates below as formatDate writes them, the same
\* layout with a day and a month the calendar does not have, a text that is
\* not complete, and the empty text.
TypedDates ==
    {DateTime(2024, 3, 1, 0, 0), DateTime(2024, 3, 3, 0, 0),
     DateTime(2024, 3, 5, 0, 0), DateTime(999, 3, 1, 0, 0)}

WrongDay == [y |-> 2023, m |-> 2, d |-> 31, h |-> 0, mi |-> 0]

TypedTexts(p) ==
    {FormatDate(p, date) : date \in TypedDates \cup {WrongDay}}
        \cup {Slice(FormatDate(p, Today), 0, 4), <<>>}

NavMonths == {2}
NavYears == {2024}
ClickDays == {1, 3, 5}
SlotIndexes == {0, 108, 168}

InitPicker ==
    /\ InitWith("resolver")
    /\ DefaultSelect
    /\ pickerLog = NoPickerEvent
    /\ \E dateFormat \in DateFormats, locale \in Locales, minDate \in MinDates,
          maxDate \in MaxDates, noWeekends \in BOOLEAN, times \in TimeProps,
          disabled \in BOOLEAN :
          picker = NewPicker(dateFormat, locale, minDate, maxDate, noWeekends,
                             times, disabled)

NextPicker ==
    \/ \E raw \in TypedTexts(picker) : HandleInputChange(raw)
    \/ \E day \in ClickDays : HandleDateChange(day)
    \/ \E i \in SlotIndexes : HandleTimeChange(i)
    \/ ToggleCalendar
    \/ FocusInput
    \/ HandleOutsideClick
    \/ \E monthIndex \in NavMonths : SelectMonth(monthIndex)
    \/ \E year \in NavYears : SelectYear(year)

SpecPicker == InitPicker /\ [][NextPicker]_vars

\* A DateInput with timePicker: minTime and maxTime on a slot, between two
\* slots, at both ends of the day, absent, and with maxTime before minTime.
SlotProps ==
    {[timePicker |-> TRUE, minTime |-> minTime, maxTime |-> maxTime] :
        minTime \in {<<>>, Clock(0, 0), Clock(9, 0), Clock(9, 2), Clock(12, 0)},
        maxTime \in {<<>>, Clock(8, 0), Clock(12, 30), Clock(17, 0), Clock(23, 59)}}

\* The slots that are clicked: the ends of the day, noon, and the slots on
\* and next to the bounds.
SlotClicks == {0, 96, 107, 108, 109, 144, 150, 151, 204, 205, 287}

InitSlots ==
    /\ InitWith("resolver")
    /\ DefaultSelect
    /\ pickerLog = NoPickerEvent
    /\ \E times \in SlotProps :
          picker = NewPicker("dd/MM/yyyy", "en-US", NoDate, NoDate, FALSE,
                             times, FALSE)

NextSlots ==
    \/ ToggleCalendar
    \/ HandleOutsideClick
    \/ \E day \in {1} : HandleDateChange(day)
    \/ \E i \in SlotClicks : HandleTimeChange(i)
    \/ \E i \in SlotClicks : ClickDisabledTime(i)

SpecSlots == InitSlots /\ [][NextSlots]_vars

\* A SelectBox bound to a field of the form, in single and in multiple mode.
SingleValues == {Arr(<<>>), Scalar(""), Scalar("2")}
MultiValues == {Arr(<<>>), Arr(<<"3", "1">>)}
Searches == {<<>>, <<"1">>, <<"O">>, <<"z">>}

InitSelect ==
    /\ InitWith("resolver")
    /\ DefaultPicker
    /\ selectLog = NoSelectEvent
    /\ layout = DefaultLayout
    /\ \E multiple \in BOOLEAN, disabled \in BOOLEAN :
          \E value \in (IF multiple THEN MultiValues ELSE SingleValues) :
              select = NewSelect(multiple, disabled, value)

NextSelect ==
    \/ ToggleDropdown
    \/ HandleClickOutside
    \/ ClickControl
    \/ \E k \in DOMAIN Options : HandleOptionClick(k)
    \/ HandleSelectAll
    \/ HandleClearSelected
    \/ \E text \in Searches : SetSearch(text)

SpecSelect == InitSelect /\ [][NextSelect]_vars

\* A page with a DateInput and a SelectBox that is scrolled and resized while
\* their panels are opened and closed.
Rects ==
    {Rect(top, spaceBelow, scrollHeight) :
        top \in {150, 300}, spaceBelow \in {100, 300}, scrollHeight \in {200, 400}}
Layouts == {[input |-> i, control |-> c] : i \in Rects, c \in Rects}

InitPlacement ==
    /\ InitWith("resolver")
    /\ DefaultPicker
    /\ select = NewSelect(FALSE, FALSE, Arr(<<>>))
    /\ selectLog = NoSelectEvent
    /\ layout \in Layouts

NextPlacement ==
    \/ ToggleCalendar
    \/ HandleOutsideClick
    \/ ToggleDropdown
    \/ HandleClickOutside
    \/ \E text \in {<<>>, <<"1">>} : SetSearch(text)
    \/ \E l \in Layouts : ScrollOrResize(l)

SpecPlacement == InitPlacement /\ [][NextPlacement]_vars

----------------------------------------------------------------------------
(* The submission status *)

Settled == {"success", "error"}

Events(run) == {run.trace[k] : k \in DOMAIN run.trace}

\* How many times event e occurs in a run's trace.
Count(run, e) == Cardinality({k \in DOMAIN run.trace : run.trace[k] = e})

\* C1: whenever submissionStatus is success or error, the next different value
\* it takes is idle; it never goes from success or error directly to
\* submitting, success or error.
C1_SettledStatusOnlyGoesToIdle ==
    [][(submissionStatus \in Settled /\ submissionStatus' # submissionStatus)
          => submissionStatus' = "idle"]_vars

RemovesFeedbackWithOnClose ==
    /\ runs' = runs
    /\ Len(feedbacks') < Len(feedbacks)
    /\ \E k \in DOMAIN feedbacks :
          /\ feedbacks[k].onClose
          /\ \A j \in DOMAIN feedbacks' : feedbacks'[j].id # feedbacks[k].id

ClaimedEnabled(cfg) ==
    \/ ~cfg.present
    \/ /\ {cfg.showFeedback, cfg.successMessage, cfg.errorMessage} # {NONE}
       /\ cfg.showFeedback # "false"

\* The steps of a run whose validation passed and whose onSubmit resolved.
ClaimedSuccessSteps(run) ==
    <<"validate", "submitting", "onSubmit", "success">>
    \o (IF ClaimedEnabled(run.cfgArg) THEN <<"addFeedback:success">> ELSE <<>>)
    \o <<"resetForm">>
    \o (IF run.onSuccess # "absent" THEN <<"onSuccess">> ELSE <<>>)

\* C3: in a run where validation passes and onSubmit resolves, the steps
\* validate, submitting, onSubmit, success, success feedback (when enabled),
\* resetForm, onSuccess happen in this order, each exactly once.
C3_SuccessStepsInOrder ==
    \A i \in DOMAIN runs :
        LET run == runs[i]
            steps == ClaimedSuccessSteps(run)
        IN "success" \in Events(run) =>
              /\ Len(run.trace) >= Len(steps)
              /\ SubSeq(run.trace, 1, Len(steps)) = steps
              /\ \A k \in DOMAIN steps : Count(run, steps[k]) = 1
              /\ Len(run.onSubmitArg) = 1

C3_Witness ==
    \E i \in DOMAIN runs :
        /\ runs[i].promise = "fulfilled"
        /\ runs[i].onSuccess = "returns"
        /\ runs[i].sent # <<>>
        /\ "onSuccess" \in Events(runs[i])
        /\ submissionStatus = "success"
        /\ values = runs[i].resetTo

\* A step in which handleSubmit is invoked and the resolver reports errors.
SubmitRejectedByResolver ==
    /\ Len(runs') = Len(runs) + 1
    /\ ~NoKeys(runs'[Len(runs')].resolverResult)

\* C4: if the resolver returns a non-empty error map, handleSubmit invokes
\* neither onSubmit nor onSuccess, adds no feedback, does not call resetForm,
\* leaves submissionStatus and values unchanged, and leaves errors equal to
\* the resolver's result.
C4_ValidationFailureOnlyWritesErrors ==
    [][/\ SubmitRejectedByResolver =>
             LET run == runs'[Len(runs')] IN
             /\ submissionStatus' = submissionStatus
             /\ values' = values
             /\ touched' = touched
             /\ feedbacks' = feedbacks
             /\ timers' = timers
             /\ errors' = run.resolverResult
       /\ \A i \in DOMAIN runs' :
             ~NoKeys(runs'[i].resolverResult) =>
                /\ runs'[i].trace = <<"validate">>
                /\ runs'[i].onSubmitArg = <<>>
                /\ runs'[i].sent = <<>>
                /\ runs'[i].promise = "fulfilled"]_vars

\* handleSubmit was invoked on a form in status success and stopped at the
\* validation.
C4_Witness ==
    /\ submissionStatus = "success"
    /\ \E i \in DOMAIN runs :
          /\ ~NoKeys(runs[i].resolverResult)
          /\ errors = runs[i].resolverResult
          /\ i > 1

\* C5: a handleSubmit run that ends with submissionStatus set to error did
\* not call resetForm.
C5_NoResetFormOnError ==
    \A i \in DOMAIN runs :
        "error" \in Events(runs[i]) => "resetForm" \notin Events(runs[i])

\* C6: the promise returned by handleSubmit never rejects, whatever the
\* submit callback throws or rejects with.
C6_PromiseNeverRejects ==
    \A i \in DOMAIN runs : runs[i].promise # "rejected"

----------------------------------------------------------------------------
(* The feedback of a submission *)

\* The first non-empty candidate, in the order the claim gives.
ClaimedSuccessMessage(run) ==
    IF run.result.t = "object" /\ Truthy(run.result.message)
    THEN run.result.message
    ELSE IF Truthy(run.cfgArg.successMessage) THEN run.cfgArg.successMessage
    ELSE "Done!"

ClaimedErrorMessage(run) ==
    IF run.caught.t = "object" /\ Truthy(run.caught.message)
    THEN run.caught.message
    ELSE IF /\ run.caught.t = "object"
            /\ run.caught.data = "object"
            /\ Truthy(run.caught.dataMessage)
    THEN run.caught.dataMessage
    ELSE IF Truthy(run.cfgArg.errorMessage) THEN run.cfgArg.errorMessage
    ELSE "An error occurred. Please try again."

\* C7: the message handed to addFeedback is the first non-empty candidate:
\* on success result.message, feedbackConfig.successMessage, "Done!"; on
\* failure error.message, error.data.message, feedbackConfig.errorMessage,
\* "An error occurred. Please try again.".
C7_MessagePrecedence ==
    \A i \in DOMAIN runs :
        \A k \in DOMAIN runs[i].sent :
            LET m == runs[i].sent[k] IN
            /\ m.variant = "success" => m.message = ClaimedSuccessMessage(runs[i])
            /\ m.variant = "error" => m.message = ClaimedErrorMessage(runs[i])

\* A success message taken from the configuration because the result's is
\* empty, and an error message taken from error.data.message.
C7_Witness ==
    /\ \E i \in DOMAIN runs :
          /\ runs[i].result.message = ""
          /\ runs[i].sent # <<>>
          /\ runs[i].sent[1] = [variant |-> "success", message |-> "S"]
    /\ \E i \in DOMAIN runs :
          /\ runs[i].caught.message = NONE
          /\ runs[i].cfgArg.errorMessage = "E"
          /\ [variant |-> "error", message |-> "D"] \in
                {runs[i].sent[k] : k \in DOMAIN runs[i].sent}

\* The feedbacks of the manager's list with the given variant and message.
Sent(run, variant) ==
    Cardinality({k \in DOMAIN run.sent : run.sent[k].variant = variant})

\* C8: after the submit callback settles, handleSubmit adds a feedback iff
\* feedbackConfig is absent or is a non-empty object whose showFeedback is not
\* false; the status change, and resetForm on success, happen either way.
C8_FeedbackIffEnabled ==
    /\ \A i \in DOMAIN runs :
          LET run == runs[i]
              n == IF ClaimedEnabled(run.cfgArg) THEN 1 ELSE 0
          IN /\ Sent(run, "success") = n * Count(run, "success")
             /\ Sent(run, "error") = n * Count(run, "error")
             /\ run.promise # "pending" =>
                   Count(run, "success") + Count(run, "error") >= 1
             /\ Count(run, "success") = Count(run, "resetForm")
    /\ Len(feedbacks) =
          Cardinality({<<i, k>> \in (DOMAIN runs) \X (1..2) :
                          k \in DOMAIN runs[i].sent})

\* One submission with an empty configuration object succeeded silently and
\* one with no configuration failed with a feedback.
C8_Witness ==
    /\ \E i \in DOMAIN runs :
          /\ IsEmptyConfig(runs[i].cfgArg)
          /\ runs[i].sent = <<>>
          /\ "resetForm" \in Events(runs[i])
    /\ \E i \in DOMAIN runs :
          /\ ~runs[i].cfgArg.present
          /\ runs[i].promise = "fulfilled"
          /\ Sent(runs[i], "error") = 1
    /\ submissionStatus \in Settled

----------------------------------------------------------------------------
(* The form state *)

\* C9: after any sequence of setters, validate calls and re-renders,
\* resetForm yields values equal to the initialValues the form was created
\* with, errors = {} and touched = {}.
C9_ResetFormRestoresCreation ==
    [][(lastCall' # lastCall /\ lastCall'.op = "resetForm") =>
          /\ values' = createdWith
          /\ errors' = EmptyMap
          /\ touched' = EmptyMap]_vars

\* C10: after validate(fn), errors is exactly the map fn returned, values and
\* touched are unchanged, and validate returns true iff that map has no keys.
C10_ValidateOverwritesErrors ==
    [][(lastCall' # lastCall /\ lastCall'.op = "validate") =>
          LET returned == ApplyValidateFn(lastCall'.fn, renderValues) IN
          /\ errors' = returned
          /\ DOMAIN errors' = DOMAIN returned
          /\ values' = values
          /\ touched' = touched
          /\ lastCall'.returned <=> (DOMAIN returned = {})]_vars

\* validate reported field a and the error set on field b before is gone.
C10_Witness ==
    /\ lastCall.op = "validate"
    /\ lastCall.fn = "requiredA"
    /\ ~lastCall.returned
    /\ errors = [f \in {"a"} |-> "Required"]
    /\ touched # EmptyMap
    /\ values # createdWith

\* What the setters are called with.
ValueInputs ==
    {Scalar(v) : v \in ScalarInputs} \cup {Arr(q) : q \in ArrayInputs}

\* C11: after setFieldArrayValue(f, v), values[f] is an array: the one-element
\* array [v] when v is a scalar, and v itself, with the same elements in the
\* same order, when v is an array.
C11_ArrayCoercion ==
    [][\A f \in FieldNames, v \in ValueInputs :
          SetFieldArrayValue(f, v) =>
             /\ values'[f].arr
             /\ values'[f].items = v.items
             /\ ~v.arr => Len(values'[f].items) = 1
             /\ v.arr => values'[f] = v]_vars

\* Field a holds the one-element array made from a scalar and field b holds
\* the two-element array it was given.
C11_Witness ==
    /\ values["a"] = Arr(<<"x">>)
    /\ values["b"] = Arr(<<"x", "y">>)

\* Map after differs from map before at most in the entry for field f.
OnlyEntryChanged(before, after, f) ==
    /\ DOMAIN after = (DOMAIN before) \cup {f}
    /\ \A g \in (DOMAIN before) \ {f} : after[g] = before[g]

\* C12: setFieldValue, setFieldArrayValue, setFieldError and setFieldTouched
\* each change only the entry for field f in the one map they target; the
\* other fields' entries, the two other maps and submissionStatus are
\* unchanged, also when several setters run before a re-render.
C12_SettersChangeOneEntry ==
    [][\A f \in FieldNames :
          /\ (\E v \in ValueInputs :
                  SetFieldValue(f, v) \/ SetFieldArrayValue(f, v)) =>
                /\ OnlyEntryChanged(values, values', f)
                /\ errors' = errors
                /\ touched' = touched
                /\ submissionStatus' = submissionStatus
          /\ (\E e \in ErrorInputs : SetFieldError(f, e)) =>
                /\ OnlyEntryChanged(errors, errors', f)
                /\ values' = values
                /\ touched' = touched
                /\ submissionStatus' = submissionStatus
          /\ (\E t \in BOOLEAN : SetFieldTouched(f, t)) =>
                /\ OnlyEntryChanged(touched, touched', f)
                /\ values' = values
                /\ errors' = errors
                /\ submissionStatus' = submissionStatus]_vars

\* Since the last render, setters have changed the values of a and of b, the
\* error of a and the touched flag of b, and all four changes are in place.
C12_Witness ==
    /\ renderValues = createdWith
    /\ values["a"] = Scalar("x")
    /\ values["b"] = Arr(<<"x">>)
    /\ errors = [f \in {"a"} |-> "E"]
    /\ touched = [f \in {"b"} |-> TRUE]

\* C13: in every reachable state the key set of values equals the key set of
\* initialValues, and the key sets of errors and of touched are subsets of
\* it, for any sequence of store operations and handleSubmit runs.
C13_KeySetsFixed ==
    /\ DOMAIN values = DOMAIN createdWith
    /\ DOMAIN errors \subseteq DOMAIN values
    /\ DOMAIN touched \subseteq DOMAIN values

----------------------------------------------------------------------------
(* The feedback manager *)

\* C14: every feedback held by the feedback manager has an id different from
\* the id of every other feedback in the list, also when several addFeedback
\* calls are made at the same clock reading.
C14_FeedbackIdsUnique ==
    \A j, k \in DOMAIN feedbacks : j # k => feedbacks[j].id # feedbacks[k].id

\* C15: a subscribed listener is called with the manager's current list on
\* every change of the list; a listener whose unsubscribe function has been
\* called is never called again, while the other listeners still are.
C15_ListenersFollowTheList ==
    [][/\ feedbacks' # feedbacks =>
             \A l \in listeners :
                 /\ l \in listeners'
                 /\ heard'[l].calls > heard[l].calls
                 /\ heard'[l].last = feedbacks'
       /\ \A l \in ListenerPool :
             heard[l].unsubscribed =>
                 /\ l \notin listeners'
                 /\ heard'[l] = heard[l]]_vars

\* Listener l1 has unsubscribed and the list has changed since: l1 still has
\* the list of its last call, l2 has the current one.
C15_Witness ==
    /\ heard["l1"].unsubscribed
    /\ heard["l1"].calls > 0
    /\ heard["l1"].last # feedbacks
    /\ "l2" \in listeners
    /\ heard["l2"].calls > heard["l1"].calls
    /\ heard["l2"].last = feedbacks
    /\ \E k \in DOMAIN feedbacks : feedbacks[k].isFadingOut

----------------------------------------------------------------------------
(* The date picker *)

SameDay(a, b) == a.y = b.y /\ a.m = b.m /\ a.d = b.d

\* The picker has just handled typed text and reported a date.
EmittedDate == pickerLog.called /\ pickerLog.emitted \notin {NULL, NoDate}

\* C16: for each of the five formats and every date d that is not disabled,
\* typing the text formatDate(d) makes the picker emit a date with the year,
\* month and day of d, and show no error.
C16_TypedRoundTrip ==
    pickerLog.kind = "type" =>
        \A d \in TypedDates :
            (~IsDateDisabled(picker, d) /\ pickerLog.text = FormatDate(picker, d))
                => /\ EmittedDate
                   /\ SameDay(pickerLog.emitted, d)
                   /\ picker.errorMessage = <<>>

\* The date the typed text of the last event resolves to.
TypedDate == ParseTyped(picker, MaskInput(picker, pickerLog.text))

Incomplete(p) == {Slice(FormatDate(p, Today), 0, 4), <<>>}

\* C18: typed text that is not yet a complete date clears the error and
\* reports null; typed text that is complete but names a day or month the
\* calendar does not have reports null and shows "Invalid date."; it is never
\* emitted as some other date.
C18_NoSuchDayIsInvalid ==
    pickerLog.kind = "type" =>
        /\ pickerLog.text \in Incomplete(picker) =>
              /\ pickerLog.emitted = NULL
              /\ picker.errorMessage = <<>>
        /\ pickerLog.text = FormatDate(picker, WrongDay) =>
              /\ pickerLog.emitted = NULL
              /\ picker.errorMessage = <<"Invalid date.">>

\* C19: with timePicker and a value already selected, choosing a time slot
\* emits the same year, month and day with the hour and minute of the slot,
\* and choosing an enabled calendar day emits that day with the hour and
\* minute of the previous value.
C19_DateAndTimeKeptApart ==
    (picker.timePicker /\ pickerLog.before # NULL) =>
        /\ pickerLog.kind = "time" =>
              /\ EmittedDate
              /\ SameDay(pickerLog.emitted, pickerLog.before)
              /\ \E i \in SlotIndexes :
                    /\ pickerLog.text = SlotText(i)
                    /\ pickerLog.emitted.h * 60 + pickerLog.emitted.mi = i * 5
        /\ pickerLog.kind = "day" =>
              /\ EmittedDate
              /\ SameDay(pickerLog.emitted, pickerLog.date)
              /\ pickerLog.emitted.h = pickerLog.before.h
              /\ pickerLog.emitted.mi = pickerLog.before.mi

\* With minTime set, a day was clicked while the value was 02:00 PM of
\* another day, and the value is 02:00 PM of the clicked day.
C19_Witness ==
    /\ picker.timePicker
    /\ picker.minTime # <<>>
    /\ pickerLog.kind = "day"
    /\ pickerLog.before # NULL
    /\ pickerLog.before.h = 14
    /\ pickerLog.before.d # pickerLog.date.d
    /\ picker.value = SetHours(pickerLog.date, 14, 0)

\* C20: with timePicker and minTime, once a time has been chosen no later
\* sequence of calendar clicks, time clicks and typing makes a calendar
\* selection set the time back to minTime.
C20_MinTimeOnlyOnFirstSelection ==
    (pickerLog.timeChosen /\ pickerLog.kind = "day") => ~pickerLog.minTimeApplied

\* The minutes since midnight of an "HH:MM" bound.
ClockMinutes(text) == ParseClock(text).h * 60 + ParseClock(text).mi

\* minTime <= minutes <= maxTime, an absent bound not restricting.
WithinTimes(p, minutes) ==
    /\ p.minTime # <<>> => ClockMinutes(p.minTime) <= minutes
    /\ p.maxTime # <<>> => minutes <= ClockMinutes(p.maxTime)

\* C27: with timePicker the picker offers the 288 slots from 12:00 AM to
\* 11:55 PM, five minutes apart in ascending order; a slot is enabled iff
\* minTime <= slot <= maxTime in minutes since midnight, an absent bound not
\* restricting; and a click on a slot outside that range emits nothing.
C27_SlotsWithinBounds ==
    picker.timePicker =>
        /\ Len(Times) = 288
        /\ Times[1] = <<"1", "2", ":", "0", "0", " ", "AM">>
        /\ Times[Len(Times)] = <<"1", "1", ":", "5", "5", " ", "PM">>
        /\ \A n \in DOMAIN Times :
              /\ SlotClock(Times[n]).h * 60 + SlotClock(Times[n]).mi = 5 * (n - 1)
              /\ ~IsTimeDisabled(picker, Times[n])
                    <=> WithinTimes(picker, 5 * (n - 1))
        /\ \A i \in SlotClicks :
              (/\ pickerLog.kind \in {"time", "disabled"}
               /\ pickerLog.text = SlotText(i)
               /\ ~WithinTimes(picker, 5 * i)) =>
                  /\ ~pickerLog.called
                  /\ pickerLog.emitted = NoDate
                  /\ picker.value = pickerLog.before

\* With minTime 09:00 and a value selected, the slot 08:55 AM was clicked and
\* the value is what it was.
C27_Witness ==
    /\ picker.timePicker
    /\ picker.minTime = Clock(9, 0)
    /\ pickerLog.kind = "disabled"
    /\ pickerLog.text = SlotText(107)
    /\ pickerLog.before # NULL
    /\ picker.value = pickerLog.before
    /\ ~pickerLog.called

\* C29: with timePicker, minTime and maxTime, every date the picker emits by
\* a day click, a slot click or typed text has its time of day within
\* [minTime, maxTime].
C29_EmittedTimeWithinBounds ==
    (/\ picker.timePicker
     /\ picker.minTime # <<>>
     /\ picker.maxTime # <<>>
     /\ pickerLog.kind \in {"day", "time", "type"}
     /\ EmittedDate) =>
        WithinTimes(picker, pickerLog.emitted.h * 60 + pickerLog.emitted.mi)

\* C24: a feedback is removed only after it was marked isFadingOut; a
\* feedback added with autoDismiss stays in the list only while a timer for
\* it is still to fire; and the onClose of a feedback has been called once if
\* the feedback was removed and not at all if it was not.
C24_FadeRemoveCloseOnce ==
    \A i \in DOMAIN history :
        LET h == history[i]
        IN /\ h.removed => h.wasFadingOut
           /\ (h.autoDismiss /\ ~h.removed) =>
                 \E k \in DOMAIN timers : timers[k].id = h.id
           /\ h.onClose => h.closes = (IF h.removed THEN 1 ELSE 0)

----------------------------------------------------------------------------
(* The select box *)

\* The values of a list other than val, in their order.
Others(items, val) == SelectSeq(items, LAMBDA v : v # val)

Elements(items) == {items[k] : k \in DOMAIN items}

C22_SelectAllAndClearAll ==
    /\ select.options = Options
    /\ selectLog.kind = "selectAll" =>
          /\ selectLog.called
          /\ selectLog.emitted.arr
          /\ Len(selectLog.emitted.items) = OptionCount
          /\ \A k \in 1..OptionCount : <<selectLog.emitted.items[k]>> = ToDigits(k)
    /\ selectLog.kind = "clearAll" =>
          /\ selectLog.called
          /\ selectLog.emitted = Arr(<<>>)

\* Select All was clicked while the search showed option 1 only and options
\* 3 and 1 were selected.
C22_Witness ==
    /\ selectLog.kind = "selectAll"
    /\ select.search = <<"1">>
    /\ selectLog.before = Arr(<<"3", "1">>)
    /\ Len(select.value.items) = OptionCount

\* The selected values: none for the empty string and the empty list.
SelectedValues(value) ==
    IF value.arr THEN value.items
    ELSE IF value.items = <<"">> THEN <<>> ELSE value.items

\* C23: the control shows, in single mode, the label of the selected option
\* or the placeholder when no option is selected, the empty string and the
\* empty list included; in multi mode the placeholder for no selection, the
\* labels joined by ", " for one to three values, "N of M selected" for more.
C23_ControlText ==
    LET chosen == SelectedValues(select.value)
        n == Len(chosen)
        label(k) == OptionLabel(CHOOSE j \in 1..OptionCount : ToDigits(j) = <<chosen[k]>>)
        comma == <<",", " ">>
    IN DisplayValue(select) =
         Text(IF n = 0 THEN <<"Select...">>
              ELSE IF ~select.multiple \/ n = 1 THEN label(1)
              ELSE IF n = 2 THEN label(1) \o comma \o label(2)
              ELSE IF n = 3 THEN label(1) \o comma \o label(2) \o comma \o label(3)
              ELSE ToDigits(n) \o <<" of ">> \o ToDigits(OptionCount)
                       \o <<" selected">>)

\* C30: a user click on the control of a select box that is not disabled, a
\* document mousedown followed by a click on the control, leaves the dropdown
\* closed if it was open and open if it was closed.
C30_ControlClickToggles ==
    (selectLog.kind = "control" /\ ~select.disabled) =>
        select.isOpen = ~selectLog.wasOpen

----------------------------------------------------------------------------
(* Submissions that overlap *)

\* The runs whose submit callback has not settled yet.
InFlight == {i \in DOMAIN runs : runs[i].promise = "pending"}

\* C25: handleSubmit called while an earlier submission is in flight and the
\* status is submitting, with values that pass validation, sets submitting
\* again and calls onSubmit again, leaving the earlier run in flight; and each
\* run that settles while another is in flight records its own success or
\* error.
C25_SubmitWhileSubmitting ==
    [][/\ (/\ Len(runs') = Len(runs) + 1
           /\ InFlight # {}
           /\ submissionStatus = "submitting"
           /\ NoKeys(runs'[Len(runs')].resolverResult))
          => /\ submissionStatus' = "submitting"
             /\ runs'[Len(runs')].onSubmitArg = <<renderValues>>
             /\ runs'[Len(runs')].promise = "pending"
             /\ \A i \in InFlight : runs'[i] = runs[i]
       /\ \A i \in InFlight :
             (Len(runs') = Len(runs) /\ runs'[i].promise # "pending")
                => /\ Events(runs'[i]) \cap Settled # {}
                   /\ submissionStatus' \in Settled
                   /\ \A j \in InFlight \ {i} : runs'[j] = runs[j]
      ]_vars

\* Two submit callbacks are in flight, and after one of them has settled the
\* other still is.
C25_Witness ==
    /\ Len(runs) = 2
    /\ runs[1].promise = "pending"
    /\ runs[2].promise = "fulfilled"
    /\ runs[2].onSubmitArg # <<>>
    /\ Events(runs[2]) \cap Settled # {}

\* C28: whenever a submit callback started by handleSubmit has not settled,
\* submissionStatus is submitting, whatever the order of handleSubmit calls,
\* settlements, dismissals of earlier feedback and resets from success or
\* error.
C28_SubmittingWhileInFlight ==
    InFlight # {} => submissionStatus = "submitting"

----------------------------------------------------------------------------
(* The placement of the panels *)

\* The height of the select-box dropdown: its content, up to the max-height.
DropdownHeight == Min(250, layout.control.scrollHeight)

\* C26, as claimed: an open calendar panel and an open select-box dropdown
\* are above the control iff the space below the control is smaller than the
\* panel height and the space above the control is larger than the space
\* below; otherwise they are below.
C26_AboveWhenMoreRoomAbove ==
    /\ picker.isCalendarOpen =>
          (picker.position = "above"
              <=> /\ layout.input.spaceBelow < layout.input.scrollHeight
                  /\ layout.input.top > layout.input.spaceBelow)
    /\ select.isOpen =>
          (select.position = "above"
              <=> /\ layout.control.spaceBelow < DropdownHeight
                  /\ layout.control.top > layout.control.spaceBelow)

\* C26, amended: an open calendar panel and an open select-box dropdown are
\* above the control iff the space below the control is smaller than the
\* panel height and the space above the control is larger than the panel
\* height; otherwise they are below.
C26_AboveWhenPanelFitsAbove ==
    /\ picker.position \in {"above", "below"}
    /\ select.position \in {"above", "below"}
    /\ picker.isCalendarOpen =>
          (picker.position = "above"
              <=> /\ layout.input.spaceBelow < layout.input.scrollHeight
                  /\ layout.input.top > layout.input.scrollHeight)
    /\ select.isOpen =>
          (select.position = "above"
              <=> /\ layout.control.spaceBelow < DropdownHeight
                  /\ layout.control.top > DropdownHeight)

\* After a scroll the open calendar is above its input, and the open dropdown
\* is below its control although there is more room above than below.
C26_Witness ==
    /\ picker.isCalendarOpen
    /\ picker.position = "above"
    /\ select.isOpen
    /\ select.position = "below"
    /\ layout.control.spaceBelow < DropdownHeight
    /\ layout.control.top > layout.control.spaceBelow

====
